---- MODULE Spec2Model ----
(***************************************************************************)
(* Workflow routing engine of the academic staff service-request portal.   *)
(* The model follows server/routes.ts (second registerRoutes, the one that *)
(* uses REQUEST_TYPES and determineNextApprover) on top of MongoStorage    *)
(* and the mongoose schemas.  Every await of the action handler that       *)
(* reads or writes the request collection is a separate step, so that two  *)
(* handlers can interleave.                                                *)
(***************************************************************************)
EXTENDS Integers, Sequences, FiniteSets, Bags, TLC

VARIABLES
    users,          \* User collection: id -> document
    departments,    \* Department collection: id -> document
    workflows,      \* WorkflowConfig collection: id -> document
    requests,       \* Request collection, in creation order
    timeline,       \* RequestTimeline collection (bag of entries)
    notifications,  \* Notification collection (bag of entries)
    auditLogs,      \* AuditLog collection (bag of entries)
    proc,           \* one record per action handler in flight
    calls,          \* number of calls so far that passed their checks
    adminOps,       \* number of workflow administration calls so far
    initStages,     \* history: stage list resolved when request i was created
    now,            \* the server clock, in minutes
    login,          \* one record per login handler in flight
    loginCalls,     \* number of login calls so far that passed their checks
    wrongStreak     \* history: times of the wrong-password answers since
                    \* the last successful login

authVars == <<now, login, loginCalls, wrongStreak>>

vars == <<users, departments, workflows, requests, timeline, notifications,
          auditLogs, proc, calls, adminOps, initStages,
          now, login, loginCalls, wrongStreak>>

----------------------------------------------------------------------------
(* Bounds of the model *)

NumProcs == 2
MaxRequests == 1
MaxCalls == 4
MaxAdminOps == 1
MaxLogins == 6
MaxTime == 60
TickMinutes == 15

Procs == 1..NumProcs

----------------------------------------------------------------------------
(* Enumerations of shared/schema.ts *)

NULL == "null"

ACADEMIC_STAFF == "academic_staff"
ADMIN_OFFICER == "admin_officer"
DEAN == "dean"
REGISTRAR == "registrar"
SYS_ADMIN == "sys_admin"

USER_ROLES == {ACADEMIC_STAFF, ADMIN_OFFICER, DEAN, REGISTRAR, SYS_ADMIN}

REQUEST_TYPES == {"leave", "conference_training", "resource_requisition", "generic"}

REQUEST_STATUS == {"draft", "submitted", "pending", "approved", "rejected",
                   "modification_requested", "cancelled", "completed"}

ActionNames == {"approve", "reject", "request_modification"}

----------------------------------------------------------------------------
(* Inputs enumerated by the model *)

UserIds == {"staff", "hod", "dean", "dean2", "admin"}
DeptIds == {"d1"}

\* request types a client posts; "bogus" is a value outside REQUEST_TYPES
RequestTypeInputs == {"leave", "resource_requisition", "bogus"}

\* request types whose configs the administrator edits
AdminRequestTypes == {"leave"}

\* action names a client posts; "escalate" is not a known action
ActionInputs == ActionNames \cup {"escalate"}

\* comments a client posts: missing, whitespace only, or with text
CommentInputs == {NULL, "", " ", "ok"}

\* stage lists an administrator stores through the workflow routes
StageChoices == { <<>>, <<ADMIN_OFFICER>>, <<ADMIN_OFFICER, DEAN, REGISTRAR>> }

\* completedAt values a client may put into the body of POST /api/requests
BodyCompletedAt == {NULL, "forged"}

\* routing fields a client can put into the body of POST /api/requests:
\* none of them (NULL: the field is absent), or a forged value for each
BodyInputs ==
    {[status |-> NULL, requestorId |-> NULL, departmentId |-> NULL,
      currentApproverId |-> NULL, workflowStage |-> NULL, submittedAt |-> NULL,
      completedAt |-> c] : c \in BodyCompletedAt}
    \cup
    {[status |-> "approved", requestorId |-> "admin", departmentId |-> "d9",
      currentApproverId |-> "staff", workflowStage |-> 3, submittedAt |-> "forged",
      completedAt |-> c] : c \in BodyCompletedAt}

----------------------------------------------------------------------------
(* Values and documents *)

\* A value a resolver hands back: null/undefined, a user id, or a whole user
\* document (determineNextApprover returns the document for SYS_ADMIN).
NullVal == [kind |-> "null", id |-> NULL]
IdVal(u) == [kind |-> "id", id |-> u]
UserVal(u) == [kind |-> "user", id |-> u]

\* JavaScript truthiness of such a value (`!x`, `x || y`)
Truthy(v) == v.kind # "null"

\* mongoose casts a value written to an ObjectId path: a document is cast to
\* its _id, null stays null
CastObjectId(v) == IF v.kind = "null" THEN NULL ELSE v.id

\* String.prototype.trim on the comments of the model
Trim(c) == IF c = " " THEN "" ELSE c

\* faulty variant: the comment test without the trim
NoCommentUntrimmed(c) == c = NULL \/ c = ""

\* !comment || comment.trim().length === 0
NoComment(c) == c = NULL \/ Trim(c) = ""

NoRequest == [requestType |-> "none", status |-> "none", requestorId |-> NULL,
              departmentId |-> NULL, currentApproverId |-> NULL,
              workflowStage |-> 0, completedAt |-> NULL, submittedAt |-> NULL]

NoUpdate == [status |-> "none", currentApproverId |-> NullVal,
             workflowStage |-> 0, completedAt |-> NULL]

IdleProc == [pc |-> "idle", userId |-> NULL, reqId |-> 0,
             action |-> "none", snap |-> NoRequest,
             stages |-> <<>>, upd |-> NoUpdate, tl |-> "none"]

\* HTTP status of each outcome of the two handlers
HttpStatus(result) ==
    CASE result = "ok" -> 200
      [] result = "created" -> 201
      [] result = "NotAuthorizedApprover" -> 403
      [] result = "NotFound" -> 404
      [] result = "InternalError" -> 500
      [] OTHER -> 400

----------------------------------------------------------------------------
(* MongoStorage *)

\* User.findOne({ role }): any one user with the role (no sort is given)
findUserByRole(role) == {u \in DOMAIN users : users[u].role = role}

\* User.findOne({ role, faculty }): the user schema has no `faculty` path, so
\* no stored user carries one; the filter matches on an absent field
getUserByRoleAndFaculty(role, faculty) ==
    {u \in DOMAIN users : users[u].role = role /\ users[u].faculty = faculty}

\* faulty variant: a lookup that also accepts any default config of the type
\* when asked for a department
getWorkflowConfigOrDefault(requestType, departmentId) ==
    {w \in DOMAIN workflows : /\ workflows[w].requestType = requestType
                              /\ \/ workflows[w].departmentId = departmentId
                                 \/ workflows[w].isDefault}

\* WorkflowConfig.findOne({ requestType, departmentId }); an undefined
\* departmentId (NULL here) matches the configs that store none
getWorkflowConfig(requestType, departmentId) ==
    {w \in DOMAIN workflows : /\ workflows[w].requestType = requestType
                              /\ workflows[w].departmentId = departmentId}

\* Department.findById(id)
getDepartment(id) == IF id \in DOMAIN departments THEN {departments[id]} ELSE {}

\* Request.findById(id)
getRequest(id) == IF id \in 1..Len(requests) THEN requests[id] ELSE NoRequest

\* Request.findByIdAndUpdate(id, data): one atomic, unconditional $set of the
\* four fields; currentApproverId is cast to an ObjectId
updateRequest(id, data) ==
    [requests EXCEPT ![id] =
        [@ EXCEPT !.status = data.status,
                  !.currentApproverId = CastObjectId(data.currentApproverId),
                  !.workflowStage = data.workflowStage,
                  !.completedAt = data.completedAt]]

----------------------------------------------------------------------------
(* Workflow lookup and approver resolution of routes.ts *)

\* faulty variant: a lookup that falls back to the config of generic requests
ResolveWorkflowOrGeneric(requestType, departmentId) ==
    IF getWorkflowConfig(requestType, departmentId) # {}
    THEN getWorkflowConfig(requestType, departmentId)
    ELSE IF getWorkflowConfig(requestType, NULL) # {}
    THEN getWorkflowConfig(requestType, NULL)
    ELSE getWorkflowConfig("generic", NULL)

\* the two-step lookup both handlers use: department specific, else default
ResolveWorkflow(requestType, departmentId) ==
    IF getWorkflowConfig(requestType, departmentId) # {}
    THEN getWorkflowConfig(requestType, departmentId)
    ELSE getWorkflowConfig(requestType, NULL)

\* determineNextApprover(role, department): the values it can return
determineNextApprover(role, department) ==
    CASE role = ADMIN_OFFICER ->
            IF department.hodId # NULL THEN {IdVal(department.hodId)}
            ELSE IF findUserByRole(ADMIN_OFFICER) # {}
                 THEN {IdVal(u) : u \in findUserByRole(ADMIN_OFFICER)}
                 ELSE {NullVal}
      [] role = DEAN ->
            IF getUserByRoleAndFaculty(DEAN, department.faculty) # {}
            THEN {IdVal(u) : u \in getUserByRoleAndFaculty(DEAN, department.faculty)}
            ELSE IF findUserByRole(DEAN) # {}
                 THEN {IdVal(u) : u \in findUserByRole(DEAN)}
                 ELSE IF findUserByRole(SYS_ADMIN) # {}
                      THEN {IdVal(u) : u \in findUserByRole(SYS_ADMIN)}
                      ELSE {NullVal}
      [] role = REGISTRAR ->
            IF findUserByRole(REGISTRAR) # {}
            THEN {IdVal(u) : u \in findUserByRole(REGISTRAR)}
            ELSE IF findUserByRole(SYS_ADMIN) # {}
                 THEN {IdVal(u) : u \in findUserByRole(SYS_ADMIN)}
                 ELSE {NullVal}
      [] role = SYS_ADMIN ->
            IF findUserByRole(SYS_ADMIN) # {}
            THEN {UserVal(u) : u \in findUserByRole(SYS_ADMIN)}
            ELSE {NullVal}
      [] OTHER ->
            IF findUserByRole(SYS_ADMIN) # {}
            THEN {IdVal(u) : u \in findUserByRole(SYS_ADMIN)}
            ELSE {NullVal}

\* faulty variant: a first approver that falls back to a system administrator
FirstApproverOrSysAdmin(role, department) ==
    IF role = ADMIN_OFFICER /\ department.hodId # NULL THEN {department.hodId}
    ELSE IF findUserByRole(role) # {} THEN findUserByRole(role)
    ELSE IF findUserByRole(SYS_ADMIN) # {} THEN findUserByRole(SYS_ADMIN)
    ELSE {NULL}

\* POST /api/requests resolves the first approver inline.  The result is
\* either "throws" (storage.findUserByRoleAndFaculty is not a method of
\* MongoStorage) or the set of ids it can assign (NULL: none found).
FirstApprover(role, department) ==
    CASE role = ADMIN_OFFICER ->
            IF department.hodId # NULL THEN {department.hodId}
            ELSE IF findUserByRole(role) # {} THEN findUserByRole(role)
                 ELSE {NULL}
      [] role = DEAN -> {"throws"}
      [] OTHER ->
            IF findUserByRole(role) # {} THEN findUserByRole(role) ELSE {NULL}

----------------------------------------------------------------------------
(* Initial state: the database when registerRoutes has run *)

\* a Date field: <<>> when the document has none (null or absent), else <<t>>
NoDate == <<>>

UserDoc(role, departmentId) ==
    [role |-> role, departmentId |-> departmentId, facultyId |-> NULL,
     faculty |-> NULL, status |-> "active",
     failedLoginAttempts |-> 0, accountLockedUntil |-> NoDate]

\* no login in flight
IdleLogin == [pc |-> "idle", userId |-> NULL, passwordOk |-> FALSE, attempts |-> 0]

AuthInit ==
    /\ now = 0
    /\ login = [p \in Procs |-> IdleLogin]
    /\ loginCalls = 0
    /\ wrongStreak = <<>>

\* the directory: one department with its staff, and the approving roles
AllUsers ==
    [u \in UserIds \ {"dean2"} |->
        CASE u = "staff" -> UserDoc(ACADEMIC_STAFF, "d1")
          [] u = "hod" -> UserDoc(ADMIN_OFFICER, "d1")
          [] u = "dean" -> UserDoc(DEAN, NULL)
          [] OTHER -> UserDoc(SYS_ADMIN, NULL)]


\* the default configs ensureDefaultWorkflows creates (stepName left out)
DefaultWorkflows ==
    [w \in {"wf_generic", "wf_leave", "wf_conference", "wf_resource"} |->
        CASE w = "wf_generic" ->
                [requestType |-> "generic", departmentId |-> NULL,
                 stages |-> <<ADMIN_OFFICER, DEAN>>, isDefault |-> TRUE]
          [] w = "wf_leave" ->
                [requestType |-> "leave", departmentId |-> NULL,
                 stages |-> <<ADMIN_OFFICER, DEAN>>, isDefault |-> TRUE]
          [] w = "wf_conference" ->
                [requestType |-> "conference_training", departmentId |-> NULL,
                 stages |-> <<ADMIN_OFFICER, DEAN, REGISTRAR>>, isDefault |-> TRUE]
          [] OTHER ->
                [requestType |-> "resource_requisition", departmentId |-> NULL,
                 stages |-> <<ADMIN_OFFICER, SYS_ADMIN>>, isDefault |-> TRUE]]

Init ==
    /\ users = AllUsers
    /\ \E h \in {NULL, "hod"} :
          departments = [d \in DeptIds |->
                            [id |-> d, hodId |-> h, facultyId |-> NULL, faculty |-> NULL]]
    /\ workflows = DefaultWorkflows
    /\ requests = <<>>
    /\ timeline = EmptyBag
    /\ notifications = EmptyBag
    /\ auditLogs = EmptyBag
    /\ proc = [p \in Procs |-> IdleProc]
    /\ calls = 0
    /\ adminOps = 0
    /\ initStages = <<>>
    /\ AuthInit

----------------------------------------------------------------------------
(* POST /api/requests *)

\* what the handler decides before it writes: the outcomes a call can have,
\* each with the stage list and first approver it resolved
CreateOutcome(result, stages, approver) ==
    [result |-> result, stages |-> stages, approver |-> approver]

CreateFailure(result) == {CreateOutcome(result, <<>>, NULL)}

\* faulty variant: the checks without the type-specific field validation
CreateChecksWithoutTypeFields(u, requestType, fieldsOk, typeFieldsOk) ==
    IF requestType \notin REQUEST_TYPES \/ ~fieldsOk
    THEN CreateFailure("ValidationError")
    ELSE IF getDepartment(users[u].departmentId) = {}
    THEN CreateFailure("DepartmentNotFound")
    ELSE IF ResolveWorkflow(requestType, users[u].departmentId) = {}
    THEN CreateFailure("NoWorkflowConfigured")
    ELSE UNION {
           IF Len(workflows[w].stages) = 0
           THEN CreateFailure("NoWorkflowConfigured")
           ELSE UNION {
                  IF approver = "throws" THEN CreateFailure("InternalError")
                  ELSE IF approver = NULL THEN CreateFailure("NoApproverResolvable")
                  ELSE {CreateOutcome("created", workflows[w].stages, approver)}
                  : approver \in UNION {FirstApprover(workflows[w].stages[1], d)
                                        : d \in getDepartment(users[u].departmentId)}}
           : w \in ResolveWorkflow(requestType, users[u].departmentId)}

\* the checks of a creation in the order the handler makes them: request
\* type, title and description (fieldsOk), department, workflow, first
\* approver, then the fields of the request type (typeFieldsOk)
CreateChecks(u, requestType, fieldsOk, typeFieldsOk) ==
    IF requestType \notin REQUEST_TYPES \/ ~fieldsOk
    THEN CreateFailure("ValidationError")
    ELSE IF getDepartment(users[u].departmentId) = {}
    THEN CreateFailure("DepartmentNotFound")
    ELSE IF ResolveWorkflow(requestType, users[u].departmentId) = {}
    THEN CreateFailure("NoWorkflowConfigured")
    ELSE UNION {
           IF Len(workflows[w].stages) = 0
           THEN CreateFailure("NoWorkflowConfigured")
           ELSE UNION {
                  IF approver = "throws" THEN CreateFailure("InternalError")
                  ELSE IF approver = NULL THEN CreateFailure("NoApproverResolvable")
                  ELSE IF requestType # "generic" /\ ~typeFieldsOk
                  THEN CreateFailure("ValidationError")
                  ELSE {CreateOutcome("created", workflows[w].stages, approver)}
                  : approver \in UNION {FirstApprover(workflows[w].stages[1], d)
                                        : d \in getDepartment(users[u].departmentId)}}
           : w \in ResolveWorkflow(requestType, users[u].departmentId)}

\* the handler ends without writing anything
CreateFails(result) ==
    /\ result # "created"
    /\ UNCHANGED <<requests, timeline, notifications, auditLogs, initStages, calls>>

\* faulty variant of requestData: the body spread last, so that its fields win
RequestDataBodyLast(body, u, requestType, approver) ==
    IF body.status = NULL
    THEN [requestType |-> requestType, status |-> "pending",
          requestorId |-> u, departmentId |-> users[u].departmentId,
          currentApproverId |-> approver, workflowStage |-> 0,
          completedAt |-> body.completedAt, submittedAt |-> "now"]
    ELSE [requestType |-> requestType, status |-> body.status,
          requestorId |-> body.requestorId, departmentId |-> body.departmentId,
          currentApproverId |-> body.currentApproverId,
          workflowStage |-> body.workflowStage,
          completedAt |-> body.completedAt, submittedAt |-> body.submittedAt]

\* requestData: the body spread first, then the routing fields the handler
\* sets itself; completedAt is not among them and stays as the body has it
RequestData(body, u, requestType, approver) ==
    [requestType |-> requestType, status |-> "pending",
     requestorId |-> u, departmentId |-> users[u].departmentId,
     currentApproverId |-> approver, workflowStage |-> 0,
     completedAt |-> body.completedAt, submittedAt |-> "now"]

\* the request is stored with its timeline entry, audit log and notification
CreateSucceeds(u, requestType, stages, approver, body) ==
    LET id == Len(requests) + 1
        doc == RequestData(body, u, requestType, approver)
    IN /\ requests' = Append(requests, doc)
       /\ initStages' = Append(initStages, stages)
       /\ timeline' = timeline (+) SetToBag({[requestId |-> id, userId |-> u,
                                   action |-> "Request created and submitted"]})
       /\ auditLogs' = auditLogs (+) SetToBag({[userId |-> u,
                                   action |-> "create_request", resourceId |-> id]})
       /\ notifications' =
             IF approver \in DOMAIN users
             THEN notifications (+) SetToBag({[userId |-> approver, requestId |-> id,
                                               type |-> "assignment"]})
             ELSE notifications
       /\ calls' = calls + 1

CreateRequest(u, requestType, fieldsOk, typeFieldsOk, body) ==
    /\ calls < MaxCalls
    /\ Len(requests) < MaxRequests
    /\ u \in DOMAIN users
    /\ UNCHANGED authVars
    /\ UNCHANGED <<users, departments, workflows, proc, adminOps>>
    /\ \E o \in CreateChecks(u, requestType, fieldsOk, typeFieldsOk) :
          IF o.result = "created"
          THEN CreateSucceeds(u, requestType, o.stages, o.approver, body)
          ELSE CreateFails(o.result)

----------------
(* POST /api/requests/:id/action *)

\* faulty variant: rejected requests not treated as processed
FinalizedWithoutRejected == {"approved", "completed"}

FINALIZED == {"approved", "rejected", "completed"}

\* Faulty variants of the handler's steps, against which the properties
\* below are tested.

\* the authorization check left out
ActionChecksWithoutAuthorization(u, request, action, comment) ==
    IF action \notin ActionNames THEN "InvalidAction"
    ELSE IF action \in {"reject", "request_modification"} /\ NoComment(comment)
    THEN "CommentRequired"
    ELSE IF request = NoRequest THEN "NotFound"
    ELSE IF request.status \in FINALIZED THEN "AlreadyFinalized"
    ELSE "pass"

\* a reject that does not clear the approver
RejectKeepsApprover(request) ==
    [status |-> "rejected", currentApproverId |-> IdVal(request.currentApproverId),
     workflowStage |-> request.workflowStage, completedAt |-> "now"]

\* a reject that does not stamp completedAt
RejectWithoutCompletedAt(request) ==
    [status |-> "rejected", currentApproverId |-> NullVal,
     workflowStage |-> request.workflowStage, completedAt |-> NULL]

\* a forward that does not advance the stage
ApproveForwardSameStage(request, approver) ==
    [status |-> "pending", currentApproverId |-> approver,
     workflowStage |-> request.workflowStage, completedAt |-> NULL]

\* a modification request that leaves the request with the approver
RequestModificationKeepsApprover(request) ==
    [status |-> "modification_requested",
     currentApproverId |-> IdVal(request.currentApproverId),
     workflowStage |-> request.workflowStage, completedAt |-> NULL]

\* the handler ends before it has written anything
ActionFails(p, result) ==
    /\ proc' = [proc EXCEPT ![p] = IdleProc]
    /\ result # "ok"
    /\ UNCHANGED <<requests, timeline, notifications, auditLogs>>

\* the checks of a call, in the order the handler makes them; "pass" when
\* the call goes on to the workflow lookup
ActionChecks(u, request, action, comment) ==
    IF action \notin ActionNames THEN "InvalidAction"
    ELSE IF action \in {"reject", "request_modification"} /\ NoComment(comment)
    THEN "CommentRequired"
    ELSE IF request = NoRequest THEN "NotFound"
    ELSE IF request.status \in FINALIZED THEN "AlreadyFinalized"
    ELSE IF request.currentApproverId # u THEN "NotAuthorizedApprover"
    ELSE "pass"

\* validation, storage.getRequest, already-processed and authorization checks
ActionBegin(p, u, id, action, comment) ==
    /\ proc[p].pc = "idle"
    /\ \A q \in Procs : q < p => proc[q].pc # "idle"
    /\ calls < MaxCalls
    /\ u \in DOMAIN users
    /\ LET request == getRequest(id)
           result == ActionChecks(u, request, action, comment)
       IN IF result = "pass"
          THEN /\ proc' = [proc EXCEPT ![p] =
                            [IdleProc EXCEPT !.pc = "resolve", !.userId = u,
                                             !.reqId = id, !.action = action,
                                             !.snap = request]]
               /\ calls' = calls + 1
          ELSE UNCHANGED <<proc, calls>>
    /\ UNCHANGED authVars
    /\ UNCHANGED <<users, departments, workflows, requests, timeline,
                   notifications, auditLogs, adminOps, initStages>>

\* the update the action switch computes from the request that was read
ApproveFinal(request) ==
    [status |-> "approved", currentApproverId |-> NullVal,
     workflowStage |-> request.workflowStage, completedAt |-> "now"]

ApproveForward(request, approver) ==
    [status |-> "pending", currentApproverId |-> approver,
     workflowStage |-> request.workflowStage + 1, completedAt |-> NULL]

Reject(request) ==
    [status |-> "rejected", currentApproverId |-> NullVal,
     workflowStage |-> request.workflowStage, completedAt |-> "now"]

RequestModification(request) ==
    [status |-> "modification_requested",
     currentApproverId |-> IdVal(request.requestorId),
     workflowStage |-> request.workflowStage, completedAt |-> NULL]

\* the handler goes on to storage.updateRequest with the computed update
ActionPlans(p, stages, upd, tl) ==
    /\ proc' = [proc EXCEPT ![p].pc = "write", ![p].stages = stages,
                            ![p].upd = upd, ![p].tl = tl]
    /\ UNCHANGED <<requests, timeline, notifications, auditLogs>>

\* workflow lookup, then the action switch (with determineNextApprover and
\* the SYS_ADMIN fallback when the request moves to a next stage)
ActionResolve(p) ==
    /\ proc[p].pc = "resolve"
    /\ UNCHANGED authVars
    /\ UNCHANGED <<users, departments, workflows, calls, adminOps, initStages>>
    /\ LET request == proc[p].snap
           found == getDepartment(request.departmentId)
           departmentId == IF found = {} THEN NULL ELSE request.departmentId
       IN IF ResolveWorkflow(request.requestType, departmentId) = {}
          THEN ActionFails(p, "NoWorkflowConfigured")
          ELSE \E w \in ResolveWorkflow(request.requestType, departmentId) :
               LET stages == workflows[w].stages
                   nextStageIndex == request.workflowStage + 1
               IN IF Len(stages) = 0
                  THEN ActionFails(p, "NoWorkflowConfigured")
                  ELSE IF proc[p].action = "reject"
                  THEN ActionPlans(p, stages, Reject(request), "Request rejected")
                  ELSE IF proc[p].action = "request_modification"
                  THEN ActionPlans(p, stages, RequestModification(request),
                                   "Modification requested")
                  ELSE IF nextStageIndex >= Len(stages)
                  THEN ActionPlans(p, stages, ApproveFinal(request),
                                   "Request fully approved")
                  ELSE \E v \in (IF found = {} THEN {NullVal}
                                 ELSE UNION {determineNextApprover(stages[nextStageIndex + 1], d)
                                             : d \in found}) :
                         IF Truthy(v)
                         THEN ActionPlans(p, stages, ApproveForward(request, v),
                                          "Request approved, forwarded")
                         ELSE IF findUserByRole(SYS_ADMIN) = {}
                         THEN ActionFails(p, "NoApproverResolvable")
                         ELSE \E a \in findUserByRole(SYS_ADMIN) :
                                ActionPlans(p, stages, ApproveForward(request, IdVal(a)),
                                            "Request approved, forwarded")

\* storage.updateRequest
ActionWrite(p) ==
    /\ proc[p].pc = "write"
    /\ requests' = updateRequest(proc[p].reqId, proc[p].upd)
    /\ proc' = [proc EXCEPT ![p].pc = "effects"]
    /\ UNCHANGED authVars
    /\ UNCHANGED <<users, departments, workflows, timeline, notifications,
                   auditLogs, calls, adminOps, initStages>>

\* the notifications of a call: one to the requestor when that user exists,
\* and on request_modification one more to the caller
ActionNotifications(p) ==
    LET request == proc[p].snap
        toRequestor == IF request.requestorId \in DOMAIN users
                       THEN SetToBag({[userId |-> request.requestorId,
                                       requestId |-> proc[p].reqId,
                                       type |-> proc[p].action]})
                       ELSE EmptyBag
        toCaller == IF proc[p].action = "request_modification"
                    THEN SetToBag({[userId |-> proc[p].userId,
                                    requestId |-> proc[p].reqId,
                                    type |-> proc[p].action]})
                    ELSE EmptyBag
    IN toRequestor (+) toCaller

\* faulty variant: a handler that ends without a timeline entry
ActionFinishWithoutTimeline(p) ==
    /\ proc[p].pc = "effects"
    /\ auditLogs' = auditLogs (+) SetToBag({[userId |-> proc[p].userId,
                                   action |-> proc[p].action,
                                   resourceId |-> proc[p].reqId]})
    /\ notifications' = notifications (+) ActionNotifications(p)
    /\ proc' = [proc EXCEPT ![p] = IdleProc]
    /\ UNCHANGED authVars
    /\ UNCHANGED <<users, departments, workflows, requests, timeline,
                   calls, adminOps, initStages>>

\* what follows the write: storage.addTimelineEntry, storage.createAuditLog,
\* the notifications, and the 200 response.  They only append to their own
\* collections, so the model takes them in one step.
ActionFinish(p) ==
    /\ proc[p].pc = "effects"
    /\ timeline' = timeline (+) SetToBag({[requestId |-> proc[p].reqId,
                                           userId |-> proc[p].userId,
                                           action |-> proc[p].tl]})
    /\ auditLogs' = auditLogs (+) SetToBag({[userId |-> proc[p].userId,
                                   action |-> proc[p].action,
                                   resourceId |-> proc[p].reqId]})
    /\ notifications' = notifications (+) ActionNotifications(p)
    /\ proc' = [proc EXCEPT ![p] = IdleProc]
    /\ UNCHANGED authVars
    /\ UNCHANGED <<users, departments, workflows, requests,
                   calls, adminOps, initStages>>

\* the calls after the write that can throw: storage.addTimelineEntry,
\* storage.createAuditLog, the requestor's notification (or the lookup of
\* the requestor before it), the caller's notification
EffectPoints == {"timeline", "auditLog", "notification", "callerNotification"}

\* what a handler has appended when it throws at a point
EffectsBefore(p, point) ==
    [timeline |-> IF point = "timeline" THEN EmptyBag
                  ELSE SetToBag({[requestId |-> proc[p].reqId,
                                  userId |-> proc[p].userId,
                                  action |-> proc[p].tl]}),
     auditLogs |-> IF point \in {"timeline", "auditLog"} THEN EmptyBag
                   ELSE SetToBag({[userId |-> proc[p].userId,
                                   action |-> proc[p].action,
                                   resourceId |-> proc[p].reqId]}),
     notifications |-> IF /\ point = "callerNotification"
                          /\ proc[p].snap.requestorId \in DOMAIN users
                       THEN SetToBag({[userId |-> proc[p].snap.requestorId,
                                       requestId |-> proc[p].reqId,
                                       type |-> proc[p].action]})
                       ELSE EmptyBag]

\* faulty variant: a catch block that puts the request back as it was read
ActionEffectsFailRollback(p, point) ==
    /\ proc[p].pc = "effects"
    /\ point = "callerNotification" => proc[p].action = "request_modification"
    /\ timeline' = timeline (+) EffectsBefore(p, point).timeline
    /\ auditLogs' = auditLogs (+) EffectsBefore(p, point).auditLogs
    /\ notifications' = notifications (+) EffectsBefore(p, point).notifications
    /\ requests' = [requests EXCEPT ![proc[p].reqId] = proc[p].snap]
    /\ proc' = [proc EXCEPT ![p] = IdleProc]
    /\ UNCHANGED authVars
    /\ UNCHANGED <<users, departments, workflows, calls, adminOps, initStages>>

\* a call after the write throws: the catch block answers 500; what was
\* appended before the throw stays, the request is not touched again
ActionEffectsFail(p, point) ==
    /\ proc[p].pc = "effects"
    /\ point = "callerNotification" => proc[p].action = "request_modification"
    /\ timeline' = timeline (+) EffectsBefore(p, point).timeline
    /\ auditLogs' = auditLogs (+) EffectsBefore(p, point).auditLogs
    /\ notifications' = notifications (+) EffectsBefore(p, point).notifications
    /\ proc' = [proc EXCEPT ![p] = IdleProc]
    /\ UNCHANGED authVars
    /\ UNCHANGED <<users, departments, workflows, requests,
                   calls, adminOps, initStages>>

----------------
(* Workflow administration (requireAdmin: the caller is a SYS_ADMIN) *)

\* PUT /api/workflows/:id with new stages in the body
UpdateWorkflow(a, w, stages) ==
    /\ adminOps < MaxAdminOps
    /\ a \in findUserByRole(SYS_ADMIN)
    /\ w \in DOMAIN workflows
    /\ workflows[w].requestType \in AdminRequestTypes
    /\ workflows' = [workflows EXCEPT ![w].stages = stages]
    /\ auditLogs' = auditLogs (+) SetToBag({[userId |-> a,
                                   action |-> "update_workflow_config",
                                   resourceId |-> 0]})
    /\ adminOps' = adminOps + 1
    /\ UNCHANGED authVars
    /\ UNCHANGED <<users, departments, requests, timeline, notifications,
                   proc, calls, initStages>>

\* POST /api/workflows: a config for one department
CreateWorkflow(a, requestType, departmentId, stages) ==
    /\ adminOps < MaxAdminOps
    /\ a \in findUserByRole(SYS_ADMIN)
    /\ "wf_new" \notin DOMAIN workflows
    /\ workflows' = [w \in DOMAIN workflows \cup {"wf_new"} |->
                       IF w = "wf_new"
                       THEN [requestType |-> requestType, departmentId |-> departmentId,
                             stages |-> stages, isDefault |-> FALSE]
                       ELSE workflows[w]]
    /\ auditLogs' = auditLogs (+) SetToBag({[userId |-> a,
                                   action |-> "create_workflow_config",
                                   resourceId |-> 0]})
    /\ adminOps' = adminOps + 1
    /\ UNCHANGED authVars
    /\ UNCHANGED <<users, departments, requests, timeline, notifications,
                   proc, calls, initStages>>

----------------------------------------------------------------------------

Next ==
    \/ \E u \in UserIds, t \in RequestTypeInputs,
          f1 \in BOOLEAN, f2 \in BOOLEAN, b \in BodyInputs :
          CreateRequest(u, t, f1, f2, b)
    \/ \E p \in Procs, u \in UserIds, id \in 1..MaxRequests,
          a \in ActionInputs, c \in CommentInputs :
          ActionBegin(p, u, id, a, c)
    \/ \E p \in Procs : ActionResolve(p)
    \/ \E p \in Procs : ActionWrite(p)
    \/ \E p \in Procs : ActionFinish(p)
    \/ \E a \in UserIds, w \in DOMAIN workflows, s \in StageChoices :
          UpdateWorkflow(a, w, s)
    \/ \E a \in UserIds, t \in AdminRequestTypes, d \in DeptIds, s \in StageChoices :
          CreateWorkflow(a, t, d, s)

Spec == Init /\ [][Next]_vars

----------------------------------------------------------------------------
(* Routing over the directories an administrator can set up *)

FacultyIds == {"f1", "f2"}

\* a user document as POST /api/admin/users and PUT /api/admin/users/:id
\* store it: any role, faculty and status
DirectoryUser(role, departmentId, facultyId, status) ==
    [UserDoc(role, departmentId) EXCEPT !.facultyId = facultyId, !.status = status]

\* the users of a directory: the requestor, a second member of the
\* department who may be its admin officer, up to two deans, and possibly a
\* system administrator
Directories ==
    {[u \in {"staff", "hod"} \cup deans \cup admins |->
        CASE u = "staff" -> DirectoryUser(ACADEMIC_STAFF, "d1", "f1", "active")
          [] u = "hod" -> DirectoryUser(hodRole, "d1", "f1", hodStatus)
          [] u = "dean" -> DirectoryUser(DEAN, NULL, deanFaculty, "active")
          [] u = "dean2" -> DirectoryUser(DEAN, NULL, "f1", "active")
          [] OTHER -> DirectoryUser(SYS_ADMIN, NULL, NULL, "active")]
     : hodRole \in {ADMIN_OFFICER, REGISTRAR}, hodStatus \in {"active", "inactive"},
       deanFaculty \in FacultyIds, deans \in SUBSET {"dean", "dean2"},
       admins \in SUBSET {"admin"}}

\* hodId as POST /api/departments stores it: none, a user, or an id no user has
HodChoices == {NULL, "hod", "ghost"}

\* stage lists of the leave config (PUT /api/workflows/:id takes any body)
LeaveStageChoices ==
    { <<>>, <<ADMIN_OFFICER, DEAN>>, <<DEAN>>, <<REGISTRAR, DEAN>>,
      <<SYS_ADMIN, ADMIN_OFFICER>>, <<ACADEMIC_STAFF, ACADEMIC_STAFF>> }

\* the configs with the stages of the leave config replaced
DirectoryWorkflows(leave) == [DefaultWorkflows EXCEPT !["wf_leave"].stages = leave]

\* the configs when no config is left for leave requests
WorkflowsWithoutLeave ==
    [w \in DOMAIN DefaultWorkflows \ {"wf_leave"} |-> DefaultWorkflows[w]]

InitDirectory ==
    /\ users \in Directories
    /\ \E h \in HodChoices :
          departments = [d \in DeptIds |->
                            [id |-> d, hodId |-> h, facultyId |-> "f1", faculty |-> NULL]]
    /\ \/ \E leave \in LeaveStageChoices : workflows = DirectoryWorkflows(leave)
       \/ workflows = WorkflowsWithoutLeave
    /\ requests = <<>>
    /\ timeline = EmptyBag
    /\ notifications = EmptyBag
    /\ auditLogs = EmptyBag
    /\ proc = [p \in Procs |-> IdleProc]
    /\ calls = 0
    /\ adminOps = 0
    /\ initStages = <<>>
    /\ AuthInit

\* one leave request of the staff member, and action calls one after another
NextDirectory ==
    \/ \E f1 \in BOOLEAN, f2 \in BOOLEAN, b \in BodyInputs :
          CreateRequest("staff", "leave", f1, f2, b)
    \/ \E u \in UserIds, id \in 1..MaxRequests,
          a \in ActionInputs, c \in CommentInputs :
          ActionBegin(1, u, id, a, c)
    \/ ActionResolve(1)
    \/ ActionWrite(1)
    \/ ActionFinish(1)

SpecDirectory == InitDirectory /\ [][NextDirectory]_vars

----------------------------------------------------------------------------
(* Storage failures after the write: requests of every type and action calls
   one after another, where each call after storage.updateRequest may throw *)

NextFailures ==
    \/ \E u \in UserIds, t \in RequestTypeInputs,
          f1 \in BOOLEAN, f2 \in BOOLEAN, b \in BodyInputs :
          CreateRequest(u, t, f1, f2, b)
    \/ \E u \in UserIds, id \in 1..MaxRequests,
          a \in ActionInputs, c \in CommentInputs :
          ActionBegin(1, u, id, a, c)
    \/ ActionResolve(1)
    \/ ActionWrite(1)
    \/ ActionFinish(1)
    \/ \E point \in EffectPoints : ActionEffectsFail(1, point)

SpecFailures == Init /\ [][NextFailures]_vars

----------------------------------------------------------------------------
(* POST /api/auth/login.  The handler reads the user, checks status and
   lock, awaits bcrypt.compare and then writes with storage.updateUser: the
   read and the write are separate steps, so two logins can interleave. *)

\* the lock lasts 30 * 60 * 1000 ms; it is set when the attempts read are
\* at least 4
LockMinutes == 30
LockThreshold == 4

\* the account the logins are for
LoginUsers == {"staff"}

\* the checks before the password is verified
LoginChecks(u) ==
    IF u \notin DOMAIN users THEN "InvalidCredentials"
    ELSE IF users[u].status # "active" THEN "AccountInactive"
    ELSE IF /\ users[u].accountLockedUntil # NoDate
            /\ users[u].accountLockedUntil[1] > now
    THEN "AccountLocked"
    ELSE "pass"

\* user lookup, status and lock checks; a refused call answers 401 and
\* leaves everything as it is
LoginBegin(p, u, passwordOk) ==
    /\ loginCalls < MaxLogins
    /\ login[p].pc = "idle"
    /\ \A q \in Procs : q < p => login[q].pc # "idle"
    /\ IF LoginChecks(u) = "pass"
       THEN /\ login' = [login EXCEPT ![p] =
                            [pc |-> "verify", userId |-> u,
                             passwordOk |-> passwordOk,
                             attempts |-> users[u].failedLoginAttempts]]
            /\ loginCalls' = loginCalls + 1
       ELSE UNCHANGED <<login, loginCalls>>
    /\ UNCHANGED <<users, departments, workflows, requests, timeline,
                   notifications, auditLogs, proc, calls, adminOps, initStages,
                   now, wrongStreak>>

\* wrong password: the attempts that were read plus one, and the lock when
\* the attempts that were read are at least LockThreshold; 401
LoginFails(p) ==
    /\ login[p].pc = "verify"
    /\ ~login[p].passwordOk
    /\ users' = [users EXCEPT
                    ![login[p].userId].failedLoginAttempts = login[p].attempts + 1,
                    ![login[p].userId].accountLockedUntil =
                        IF login[p].attempts >= LockThreshold
                        THEN <<now + LockMinutes>> ELSE NoDate]
    /\ wrongStreak' = Append(wrongStreak, now)
    /\ login' = [login EXCEPT ![p] = IdleLogin]
    /\ UNCHANGED <<departments, workflows, requests, timeline, notifications,
                   auditLogs, proc, calls, adminOps, initStages, now, loginCalls>>

\* right password: attempts and lock are reset, the login is logged, the
\* session is set
LoginSucceeds(p) ==
    /\ login[p].pc = "verify"
    /\ login[p].passwordOk
    /\ users' = [users EXCEPT ![login[p].userId].failedLoginAttempts = 0,
                              ![login[p].userId].accountLockedUntil = NoDate]
    /\ auditLogs' = auditLogs (+) SetToBag({[userId |-> login[p].userId,
                                             action |-> "login",
                                             resourceId |-> login[p].userId]})
    /\ wrongStreak' = <<>>
    /\ login' = [login EXCEPT ![p] = IdleLogin]
    /\ UNCHANGED <<departments, workflows, requests, timeline, notifications,
                   proc, calls, adminOps, initStages, now, loginCalls>>

\* time passes between calls (a handler takes far less than a tick)
Tick ==
    /\ now < MaxTime
    /\ \A p \in Procs : login[p].pc = "idle"
    /\ now' = now + TickMinutes
    /\ UNCHANGED <<users, departments, workflows, requests, timeline,
                   notifications, auditLogs, proc, calls, adminOps, initStages,
                   login, loginCalls, wrongStreak>>

NextLogin ==
    \/ \E p \in Procs, u \in LoginUsers, passwordOk \in BOOLEAN :
          LoginBegin(p, u, passwordOk)
    \/ \E p \in Procs : LoginFails(p)
    \/ \E p \in Procs : LoginSucceeds(p)
    \/ Tick

SpecLogin == Init /\ [][NextLogin]_vars

----------------------------------------------------------------------------
(* Vocabulary of the properties *)

ReqIds == 1..Len(requests)

TERMINAL == {"approved", "rejected", "cancelled", "completed"}

\* handler p is at its storage.updateRequest call and takes it in this step
Writes(p) == proc[p].pc = "write" /\ proc'[p].pc = "effects"

\* the users holding a role
Holders(role) == {u \in DOMAIN users : users[u].role = role}

\* number of timeline entries of request i with the given action text
TimelineCount(i, action) ==
    BagCardinality([e \in {x \in BagToSet(timeline) :
                            x.requestId = i /\ x.action = action}
                    |-> timeline[e]])

----------------------------------------------------------------------------
(* C1 *)

\* C1: every Pending request has a current approver and a workflowStage that
\* indexes the stage list resolved for it when it was created, also after an
\* administrator has changed the WorkflowConfig.
C1_PendingWithinInitialStages ==
    \A i \in ReqIds :
        requests[i].status = "pending" =>
            /\ requests[i].currentApproverId # NULL
            /\ requests[i].workflowStage >= 0
            /\ requests[i].workflowStage < Len(initStages[i])

----------------------------------------------------------------------------
(* C2 *)

\* C2: of two action calls that read the same request in the same
\* Pending(stage = k) state, at most one gets its update written; never have
\* both handlers completed storage.updateRequest from that one read.
C2_OneTransitionPerRead ==
    \A p, q \in Procs :
        (/\ p # q
         /\ proc[p].reqId = proc[q].reqId
         /\ proc[p].snap = proc[q].snap
         /\ proc[p].snap.status = "pending")
        => ~(proc[p].pc = "effects" /\ proc[q].pc = "effects")

----------------------------------------------------------------------------
(* C3 *)

\* C3: a request whose status is Approved, Rejected, Cancelled or Completed
\* has no current approver.
C3_TerminalHasNoApprover ==
    \A i \in ReqIds :
        requests[i].status \in TERMINAL => requests[i].currentApproverId = NULL

\* a request has been rejected or fully approved by a handler
C3_Witness ==
    \E i \in ReqIds :
        /\ requests[i].status \in {"approved", "rejected"}
        /\ requests[i].currentApproverId = NULL
        /\ TimelineCount(i, "Request rejected")
             + TimelineCount(i, "Request fully approved") > 0

----------------------------------------------------------------------------
(* C4 *)

\* C4 as claimed: whatever the request, action and comment, a call by a user
\* who is not the current approver ends with NotAuthorizedApprover (403).
C4_AlwaysNotAuthorized ==
    \A u \in DOMAIN users, i \in ReqIds, a \in ActionNames, c \in CommentInputs :
        requests[i].currentApproverId # u =>
            ActionChecks(u, requests[i], a, c) = "NotAuthorizedApprover"

\* the outcome of a call by someone who is not the current approver
C4_Rejected(u, i, a, c) ==
    LET result == ActionChecks(u, requests[i], a, c)
    IN IF a \in {"reject", "request_modification"} /\ c \in {NULL, "", " "}
       THEN result = "CommentRequired"
       ELSE IF requests[i].status \in FINALIZED
       THEN result = "AlreadyFinalized"
       ELSE result = "NotAuthorizedApprover" /\ HttpStatus(result) = 403

\* C4 as amended: a call by a user who is not the current approver always
\* fails: with CommentRequired when a reject or request_modification has no
\* comment, else with AlreadyFinalized when the request is Approved, Rejected
\* or Completed, else with NotAuthorizedApprover (403).  No such call gets
\* past the checks, and the request, the timeline and the notifications
\* change only in a step of a creation or of a handler whose caller was the
\* current approver of the request it read.
C4_NonApproverFails ==
    /\ [](\A u \in DOMAIN users, i \in ReqIds, a \in ActionNames, c \in CommentInputs :
            requests[i].currentApproverId # u => C4_Rejected(u, i, a, c))
    /\ [](\A p \in Procs :
            proc[p].pc # "idle" => proc[p].userId = proc[p].snap.currentApproverId)
    /\ [][(requests' # requests \/ timeline' # timeline
             \/ notifications' # notifications)
          => \/ Len(requests') = Len(requests) + 1
             \/ \E p \in Procs :
                  /\ proc[p].pc \in {"write", "effects"}
                  /\ proc'[p] # proc[p]
                  /\ proc[p].userId = proc[p].snap.currentApproverId]_vars

\* a Pending request some user other than its approver could act on, while
\* the approver's own call has gone through
C4_Witness ==
    \E i \in ReqIds, u \in DOMAIN users :
        /\ requests[i].status = "pending"
        /\ requests[i].workflowStage = 1
        /\ requests[i].currentApproverId # u
        /\ ActionChecks(u, requests[i], "approve", "") = "NotAuthorizedApprover"

----------------------------------------------------------------------------
(* C5 *)

\* C5: an approve at the last stage (workflowStage = N - 1 of the N stages
\* resolved) writes status Approved, completedAt and no approver; and a
\* request enters Approved once: no step moves it into Approved when the
\* timeline already records that it was fully approved.
C5_ApprovedExactlyOnce ==
    [][/\ \A p \in Procs :
            (/\ Writes(p)
             /\ proc[p].action = "approve"
             /\ proc[p].snap.workflowStage = Len(proc[p].stages) - 1)
            => /\ requests'[proc[p].reqId].status = "approved"
               /\ requests'[proc[p].reqId].completedAt # NULL
               /\ requests'[proc[p].reqId].currentApproverId = NULL
       /\ \A i \in ReqIds :
            (requests[i].status # "approved" /\ requests'[i].status = "approved")
            => TimelineCount(i, "Request fully approved") = 0]_vars
----------------------------------------------------------------------------
(* C6 *)

\* the users a stage role resolves to in a department: the department's head
\* for ADMIN_OFFICER when it has one, else the holders of the role, else the
\* system administrators
ResolvedFor(role, department) ==
    IF role = ADMIN_OFFICER /\ department.hodId # NULL THEN {department.hodId}
    ELSE IF Holders(role) # {} THEN Holders(role)
    ELSE Holders(SYS_ADMIN)

----------------------------------------------------------------------------
(* C7 *)

----------------------------------------------------------------------------
(* C8 *)

----------------------------------------------------------------------------
(* C9 *)

\* C9: an action read while the request is ModificationRequested at stage k
\* leaves it ModificationRequested at stage k or puts it back to Pending at
\* stage k; it never stores Approved, Rejected or a stage above k.
C9_ModificationRequestedOnlyResubmits ==
    [][\A p \in Procs :
        (Writes(p) /\ proc[p].snap.status = "modification_requested")
        => LET stored == requests'[proc[p].reqId]
           IN /\ stored.status \in {"modification_requested", "pending"}
              /\ stored.workflowStage = proc[p].snap.workflowStage]_vars

----------------------------------------------------------------------------
(* C10 *)

\* C10: no step decreases the stored workflowStage of a request.
C10_StageNeverDecreases ==
    [][\A i \in ReqIds :
        requests'[i].workflowStage >= requests[i].workflowStage]_vars

----------------------------------------------------------------------------
(* C11 *)

\* an action call the handler carries through to its update: it passes the
\* checks and finds a workflow config with stages
ActionSucceeds(u, request, action, comment) ==
    /\ ActionChecks(u, request, action, comment) = "pass"
    /\ \E w \in ResolveWorkflow(request.requestType,
                                IF getDepartment(request.departmentId) = {}
                                THEN NULL ELSE request.departmentId) :
          Len(workflows[w].stages) > 0

\* C11: no stuck states: the current approver of every Pending or
\* ModificationRequested request is an existing user with an active account
\* (one who can log in), and some action call by that user succeeds.
C11_NoStuckRequests ==
    \A i \in ReqIds :
        requests[i].status \in {"pending", "modification_requested"} =>
            /\ requests[i].currentApproverId \in DOMAIN users
            /\ users[requests[i].currentApproverId].status = "active"
            /\ \E a \in ActionNames, c \in CommentInputs :
                  ActionSucceeds(requests[i].currentApproverId, requests[i], a, c)

----------------------------------------------------------------------------
(* C12 *)

\* C12 as claimed: on a request that is Approved, Rejected or Completed every
\* action call of every user ends with AlreadyFinalized.
C12_AlwaysAlreadyFinalized ==
    \A u \in DOMAIN users, i \in ReqIds, a \in ActionNames, c \in CommentInputs :
        requests[i].status \in {"approved", "rejected", "completed"} =>
            ActionChecks(u, requests[i], a, c) = "AlreadyFinalized"

\* C12 as amended: on a request that is Approved, Rejected or Completed
\* every action call of every user fails: with CommentRequired when the
\* action is reject or request_modification and the comment is missing,
\* empty or blank, and with AlreadyFinalized (400) otherwise.  No handler
\* gets past the checks with such a request, so none changes anything.
C12_FinalizedIsRefused ==
    /\ \A u \in DOMAIN users, i \in ReqIds, a \in ActionNames, c \in CommentInputs :
          requests[i].status \in {"approved", "rejected", "completed"} =>
              LET result == ActionChecks(u, requests[i], a, c)
              IN IF a # "approve" /\ c \in {NULL, "", " "}
                 THEN result = "CommentRequired"
                 ELSE result = "AlreadyFinalized" /\ HttpStatus(result) = 400
    /\ \A p \in Procs :
          proc[p].pc # "idle" =>
              proc[p].snap.status \notin {"approved", "rejected", "completed"}

\* a rejected and an approved request, each refusing its last approver
C12_Witness ==
    \E i \in ReqIds, u \in DOMAIN users :
        /\ requests[i].status = "rejected"
        /\ TimelineCount(i, "Request rejected") = 1
        /\ [requestId |-> i, userId |-> u, action |-> "Request rejected"]
              \in BagToSet(timeline)
        /\ ActionChecks(u, requests[i], "approve", NULL) = "AlreadyFinalized"
        /\ ActionChecks(u, requests[i], "reject", "ok") = "AlreadyFinalized"

----------------------------------------------------------------------------
(* C13 *)

\* C13: a reject or request_modification whose comment is missing, empty or
\* blank ends with CommentRequired (400) for every caller and every request
\* id, existing or not; the comment makes no difference to an approve, which
\* the current approver of a request that is not processed gets through
\* without one.
C13_CommentRequired ==
    \A u \in DOMAIN users, id \in 1..MaxRequests :
        /\ \A a \in {"reject", "request_modification"}, c \in {NULL, "", " "} :
              /\ ActionChecks(u, getRequest(id), a, c) = "CommentRequired"
              /\ HttpStatus(ActionChecks(u, getRequest(id), a, c)) = 400
        /\ \A c \in CommentInputs :
              ActionChecks(u, getRequest(id), "approve", c)
                 = ActionChecks(u, getRequest(id), "approve", "ok")
        /\ (/\ id \in ReqIds
            /\ requests[id].status \notin FINALIZED
            /\ requests[id].currentApproverId = u)
           => \A c \in CommentInputs :
                 ActionChecks(u, requests[id], "approve", c) = "pass"

\* after an approve went through: the next approver's blank reject is
\* refused, the same user's approve without a comment passes
C13_Witness ==
    \E i \in ReqIds, u \in DOMAIN users :
        /\ TimelineCount(i, "Request approved, forwarded") = 1
        /\ requests[i].status = "pending"
        /\ requests[i].currentApproverId = u
        /\ ActionChecks(u, requests[i], "reject", " ") = "CommentRequired"
        /\ ActionChecks(u, requests[i], "approve", NULL) = "pass"

----------------------------------------------------------------------------
(* C14 *)

\* the first approvers of a stage role in a department: the department's
\* hodId for ADMIN_OFFICER when it has one, else the holders of the role
FirstResolved(role, department) ==
    IF role = ADMIN_OFFICER /\ department.hodId # NULL THEN {department.hodId}
    ELSE Holders(role)

\* the creation entry the handler appends to the timeline names the caller
Creator(i) ==
    {u \in DOMAIN users :
        [requestId |-> i, userId |-> u, action |-> "Request created and submitted"]
           \in BagToSet(timeline)}

\* C14: the step that stores a new request stores it with status Pending,
\* workflowStage 0, the approver resolved for stage 0, the caller as
\* requestor, the caller's department and a submittedAt of the server,
\* whether or not the body carries values for these fields.
C14_CreatedAsPendingStageZero ==
    [][Len(requests') = Len(requests) + 1 =>
         LET id == Len(requests')
             stored == requests'[id]
         IN /\ stored.status = "pending"
            /\ stored.workflowStage = 0
            /\ stored.submittedAt = "now"
            /\ stored.requestorId \in DOMAIN users
            /\ [requestId |-> id, userId |-> stored.requestorId,
                action |-> "Request created and submitted"] \in BagToSet(timeline')
            /\ stored.departmentId = users[stored.requestorId].departmentId
            /\ stored.currentApproverId \in
                  FirstResolved(initStages'[id][1], departments[stored.departmentId])]_vars

\* a request stored for the staff member with a registrar as first approver
C14_Witness ==
    \E i \in ReqIds :
        /\ Creator(i) = {"staff"}
        /\ requests[i].requestorId = "staff"
        /\ requests[i].status = "pending"
        /\ requests[i].workflowStage = 0
        /\ initStages[i][1] = REGISTRAR
        /\ requests[i].currentApproverId \in Holders(REGISTRAR)

----------------------------------------------------------------------------
(* C15 *)

\* no config with stages resolves for leave requests of department d
NoLeaveWorkflow(d) ==
    LET found == IF getWorkflowConfig("leave", d) # {}
                 THEN getWorkflowConfig("leave", d)
                 ELSE getWorkflowConfig("leave", NULL)
    IN found = {} \/ \E w \in found : Len(workflows[w].stages) = 0

\* C15: when neither a department config nor a default config exists for the
\* request type, or the resolved one has no stages, a creation call with
\* valid required fields by a member of the department ends with
\* NoWorkflowConfigured (400), and no request, timeline entry or
\* notification exists afterwards.
C15_NoWorkflowConfigured ==
    NoLeaveWorkflow("d1") =>
        /\ \A f2 \in BOOLEAN :
              \A o \in CreateChecks("staff", "leave", TRUE, f2) :
                 o.result = "NoWorkflowConfigured" /\ HttpStatus(o.result) = 400
        /\ \A f1 \in BOOLEAN, f2 \in BOOLEAN :
              \A o \in CreateChecks("staff", "leave", f1, f2) : o.result # "created"
        /\ requests = <<>>
        /\ timeline = EmptyBag
        /\ notifications = EmptyBag

\* a database without a config for leave requests
C15_Witness ==
    /\ getWorkflowConfig("leave", "d1") = {}
    /\ getWorkflowConfig("leave", NULL) = {}
    /\ \E o \in CreateChecks("staff", "leave", TRUE, TRUE) :
          o.result = "NoWorkflowConfigured"
    /\ requests = <<>>

----------------------------------------------------------------------------
(* C16 *)

\* C16: when the first stage of the resolved config is ADMIN_OFFICER, the
\* department has no hodId and no user has the role ADMIN_OFFICER, a
\* creation call ends with NoApproverResolvable (400), also when a system
\* administrator exists, and no request exists afterwards.
C16_NoAdminOfficer ==
    (/\ ~NoLeaveWorkflow("d1")
     /\ \A w \in ResolveWorkflow("leave", "d1") : workflows[w].stages[1] = ADMIN_OFFICER
     /\ departments["d1"].hodId = NULL
     /\ Holders(ADMIN_OFFICER) = {})
    => /\ \A f2 \in BOOLEAN :
             \A o \in CreateChecks("staff", "leave", TRUE, f2) :
                o.result = "NoApproverResolvable" /\ HttpStatus(o.result) = 400
       /\ requests = <<>>

\* such a directory, with a system administrator in it
C16_Witness ==
    /\ ~NoLeaveWorkflow("d1")
    /\ \A w \in ResolveWorkflow("leave", "d1") : workflows[w].stages[1] = ADMIN_OFFICER
    /\ departments["d1"].hodId = NULL
    /\ Holders(ADMIN_OFFICER) = {}
    /\ Holders(SYS_ADMIN) # {}
    /\ \E o \in CreateChecks("staff", "leave", TRUE, TRUE) :
          o.result = "NoApproverResolvable"

----------------------------------------------------------------------------
(* C17 *)

\* the reference rule for a DEAN stage: a dean of the department's faculty,
\* else any dean, else a system administrator
DeanFor(department) ==
    LET own == {u \in Holders(DEAN) : users[u].facultyId = department.facultyId}
    IN IF own # {} THEN own
       ELSE IF Holders(DEAN) # {} THEN Holders(DEAN)
       ELSE Holders(SYS_ADMIN)

\* C17: an approve that forwards the request to a DEAN stage stores as
\* approver a dean of the faculty of the request's department whenever one
\* exists, else any dean, else a system administrator.
C17_DeanOfOwnFaculty ==
    [][\A p \in Procs :
        (/\ Writes(p)
         /\ proc[p].action = "approve"
         /\ proc[p].snap.workflowStage + 1 < Len(proc[p].stages)
         /\ proc[p].stages[proc[p].snap.workflowStage + 2] = DEAN)
        => requests'[proc[p].reqId].currentApproverId
              \in DeanFor(departments[proc[p].snap.departmentId])]_vars

----------------------------------------------------------------------------
(* C18 *)

\* the reference rules for the other roles, as the ids they allow (NULL:
\* nobody is left to choose)
ReferenceApprovers(role, department) ==
    CASE role = ADMIN_OFFICER ->
            IF department.hodId # NULL THEN {department.hodId}
            ELSE IF Holders(ADMIN_OFFICER) # {} THEN Holders(ADMIN_OFFICER)
            ELSE {NULL}
      [] OTHER ->
            IF Holders(role) # {} THEN Holders(role)
            ELSE IF Holders(SYS_ADMIN) # {} THEN Holders(SYS_ADMIN)
            ELSE {NULL}

\* C18: in every directory determineNextApprover gives, for ADMIN_OFFICER,
\* REGISTRAR, SYS_ADMIN and any other role but DEAN, a user the reference
\* rules allow (compared by the id that is stored for what it returns).
C18_ResolverAgreesWithReference ==
    \A role \in USER_ROLES \ {DEAN}, d \in DOMAIN departments :
        \A v \in determineNextApprover(role, departments[d]) :
            CastObjectId(v) \in ReferenceApprovers(role, departments[d])

----------------------------------------------------------------------------
(* C19 *)

\* C19: while a system administrator exists, determineNextApprover returns
\* a user for every role and department, and neither a creation call nor an
\* approve ends with NoApproverResolvable.
C19_SysAdminIsLastResort ==
    Holders(SYS_ADMIN) # {} =>
        /\ \A role \in USER_ROLES, d \in DOMAIN departments :
              \A v \in determineNextApprover(role, departments[d]) : Truthy(v)
        /\ \A f2 \in BOOLEAN :
              \A o \in CreateChecks("staff", "leave", TRUE, f2) :
                 o.result # "NoApproverResolvable"

----------------------------------------------------------------------------
(* C20 *)

\* a user who exists and whose account is active
ActiveUser(u) == u \in DOMAIN users /\ users[u].status = "active"

\* C20: the approver stored with a new request, and the approver stored by
\* an approve that forwards a request, is an existing user with status
\* active.
C20_ApproverIsActiveUser ==
    [][/\ Len(requests') = Len(requests) + 1 =>
             ActiveUser(requests'[Len(requests')].currentApproverId)
       /\ \A p \in Procs :
             (/\ Writes(p)
              /\ proc[p].action = "approve"
              /\ requests'[proc[p].reqId].status = "pending")
             => ActiveUser(requests'[proc[p].reqId].currentApproverId)]_vars

----------------------------------------------------------------------------
(* C21 *)

\* what initiation assigns for a first stage of the role: the ids the
\* inline lookup can give, "none" when it finds nobody, "throws" when the
\* handler ends in its catch block
InitiationApprovers(role, department) ==
    {IF a = NULL THEN "none" ELSE a : a \in FirstApprover(role, department)}

\* what an approve assigns for a next stage of the role: the stored id of
\* what determineNextApprover returns, a system administrator when that is
\* nothing, "none" when there is no system administrator either
AdvancementApprovers(role, department) ==
    UNION {IF Truthy(v) THEN {CastObjectId(v)}
           ELSE IF findUserByRole(SYS_ADMIN) # {} THEN findUserByRole(SYS_ADMIN)
           ELSE {"none"}
           : v \in determineNextApprover(role, department)}

\* C21: for every role and department of every directory, initiation and
\* advancement can assign the same approvers, and one finds an approver
\* exactly when the other does.
C21_SameResolutionOnBothPaths ==
    \A role \in USER_ROLES, d \in DOMAIN departments :
        InitiationApprovers(role, departments[d])
            = AdvancementApprovers(role, departments[d])

----------------------------------------------------------------------------
(* C22 *)

\* the stage lists the two-level lookup allows for a request type in a
\* department: those of the department's configs when there are any,
\* otherwise those of the configs without a department
TwoLevelStages(requestType, departmentId) ==
    LET specific == {w \in DOMAIN workflows :
                        /\ workflows[w].requestType = requestType
                        /\ workflows[w].departmentId = departmentId}
        default == {w \in DOMAIN workflows :
                        /\ workflows[w].requestType = requestType
                        /\ workflows[w].departmentId = NULL}
    IN {workflows[w].stages : w \in IF specific # {} THEN specific ELSE default}

\* C22: the stage list a creation resolves, and the stage list every action
\* call resolves, is the one of the department's own config for the request
\* type whenever such a config exists, and the one of the default config
\* only when none exists.
C22_DepartmentConfigFirst ==
    [][/\ Len(requests') = Len(requests) + 1 =>
             initStages'[Len(requests')]
                \in TwoLevelStages(requests'[Len(requests')].requestType,
                                   requests'[Len(requests')].departmentId)
       /\ \A p \in Procs :
             (proc[p].pc = "resolve" /\ proc'[p].pc = "write")
             => proc'[p].stages \in TwoLevelStages(proc[p].snap.requestType,
                                                   proc[p].snap.departmentId)]_vars

\* a request created under a department config that differs from the
\* default, and carried to its end under it
C22_Witness ==
    \E i \in ReqIds :
        /\ "wf_new" \in DOMAIN workflows
        /\ workflows["wf_new"].requestType = requests[i].requestType
        /\ workflows["wf_new"].departmentId = requests[i].departmentId
        /\ initStages[i] = workflows["wf_new"].stages
        /\ initStages[i] # workflows["wf_leave"].stages
        /\ requests[i].status = "approved"
        /\ requests[i].workflowStage = 0

----------------------------------------------------------------------------
(* C23 *)

\* the handlers that answer 200 in a step: they leave the "effects" position
Finishing == {p \in Procs : proc[p].pc = "effects" /\ proc'[p].pc = "idle"}

----------------------------------------------------------------------------
(* C24 *)

\* C24: every successful action call creates exactly one notification, for
\* the newly assigned approver when the request was forwarded and for the
\* requestor otherwise.
C24_OneNotificationToResponsible ==
    [][\A p \in Finishing :
         \E n \in BagToSet(notifications') :
            /\ notifications' = notifications (+) SetToBag({n})
            /\ n.requestId = proc[p].reqId
            /\ n.userId = IF proc[p].upd.status = "pending"
                          THEN CastObjectId(proc[p].upd.currentApproverId)
                          ELSE proc[p].snap.requestorId]_vars

----------------------------------------------------------------------------
(* C25 *)

\* C25: a reject or a request_modification that has passed the checks of
\* the call (request found, not finalized, caller is the approver, comment
\* given) goes on to its write whatever the workflow lookup gives; only an
\* approve can end at the lookup.
C25_OnlyApproveNeedsWorkflow ==
    [][\A p \in Procs :
         (/\ proc[p].pc = "resolve"
          /\ proc[p].action \in {"reject", "request_modification"}
          /\ proc'[p] # proc[p])
         => proc'[p].pc = "write"]_vars

----------------------------------------------------------------------------
(* C26 *)

\* a creation call that fails validation: a request type outside
\* REQUEST_TYPES, a missing title or description, or missing fields of a
\* leave, conference or requisition request
FailsValidation(requestType, fieldsOk, typeFieldsOk) ==
    \/ requestType \notin REQUEST_TYPES
    \/ ~fieldsOk
    \/ requestType \in {"leave", "conference_training", "resource_requisition"}
       /\ ~typeFieldsOk

\* C26: a creation call that fails validation never reaches the write: none
\* of its outcomes is a created request, it ends with a 4xx/5xx status, and
\* no request of an invalid type is ever stored; the failing branch leaves
\* requests, timeline, audit logs and notifications as they are.
C26_InvalidCreatesNothing ==
    /\ [](\A u \in DOMAIN users, t \in RequestTypeInputs \cup REQUEST_TYPES,
             f1 \in BOOLEAN, f2 \in BOOLEAN :
             FailsValidation(t, f1, f2)
             => \A o \in CreateChecks(u, t, f1, f2) :
                   /\ o.result # "created"
                   /\ HttpStatus(o.result) >= 400)
    /\ [][\/ Len(requests') = Len(requests)
          \/ /\ requests'[Len(requests')].requestType \in REQUEST_TYPES
             /\ BagCardinality(timeline') = BagCardinality(timeline) + 1
             /\ BagCardinality(auditLogs') = BagCardinality(auditLogs) + 1]_vars

\* a directory in which the valid call creates the request while the same
\* call without its leave fields, or with an unknown type, ends in
\* ValidationError, and nothing has been stored
C26_Witness ==
    /\ requests = <<>>
    /\ timeline = EmptyBag
    /\ notifications = EmptyBag
    /\ \E o \in CreateChecks("staff", "leave", TRUE, TRUE) : o.result = "created"
    /\ CreateChecks("staff", "leave", TRUE, FALSE) = CreateFailure("ValidationError")
    /\ CreateChecks("staff", "leave", FALSE, TRUE) = CreateFailure("ValidationError")
    /\ CreateChecks("staff", "bogus", TRUE, TRUE) = CreateFailure("ValidationError")

----------------------------------------------------------------------------
(* C27 *)

\* C27: from the write of a call to its answer, whether the calls after the
\* write succeed or throw, the request stays as the write left it (the new
\* status, stage and approver: no rollback), and the handler does not come
\* back to its write.
C27_NoRollbackNoRetry ==
    [][\A p \in Procs :
         (proc[p].pc = "effects" /\ proc'[p] # proc[p])
         => /\ proc'[p].pc = "idle"
            /\ requests' = requests
            /\ requests'[proc[p].reqId].status = proc[p].upd.status
            /\ requests'[proc[p].reqId].workflowStage = proc[p].upd.workflowStage
            /\ requests'[proc[p].reqId].currentApproverId
                  = CastObjectId(proc[p].upd.currentApproverId)
            /\ requests'[proc[p].reqId].completedAt = proc[p].upd.completedAt]_vars

\* a request that was forwarded and then rejected, where both calls threw
\* at the timeline append: the request is rejected, the timeline has only
\* the entry of the creation and the only notification is the one of the
\* creation
C27_Witness ==
    \E i \in ReqIds :
        /\ requests[i].status = "rejected"
        /\ requests[i].workflowStage = 1
        /\ TimelineCount(i, "Request rejected") = 0
        /\ BagCardinality(timeline) = 1
        /\ BagCardinality(notifications) = 1
        /\ \A p \in Procs : proc[p].pc = "idle"

----------------------------------------------------------------------------
(* C28 *)

\* C28: a stored request whose status is approved or rejected keeps its
\* status, stage, approver and completedAt in every step, whichever handler
\* takes it and whenever that handler read the request.
C28_TerminalIsAbsorbing ==
    [][\A i \in ReqIds :
         requests[i].status \in {"approved", "rejected"}
         => /\ requests'[i].status = requests[i].status
            /\ requests'[i].workflowStage = requests[i].workflowStage
            /\ requests'[i].currentApproverId = requests[i].currentApproverId
            /\ requests'[i].completedAt = requests[i].completedAt]_vars

----------------------------------------------------------------------------
(* C29 *)

\* C29: in every reachable state a request has a completedAt exactly when
\* its status is approved or rejected.
C29_CompletedAtIffTerminal ==
    \A i \in ReqIds :
        (requests[i].completedAt # NULL)
            <=> (requests[i].status \in {"approved", "rejected"})

----------------------------------------------------------------------------
(* C30 *)

\* the account has had five wrong-password answers in a row and less than
\* LockMinutes have passed since the fifth
FiveWrongAndLockRunning ==
    /\ Len(wrongStreak) >= 5
    /\ now < wrongStreak[5] + LockMinutes

\* C30: once an active account has had five wrong-password logins in a row,
\* every login call for it, with the right password too, is refused as
\* locked until 30 minutes have passed since the fifth; and a successful
\* login stores failedLoginAttempts 0 and no lock.
C30_LockedAfterFiveWrong ==
    /\ [](FiveWrongAndLockRunning
          => \A u \in LoginUsers : LoginChecks(u) = "AccountLocked")
    /\ [][\A p \in Procs :
            (login[p].pc = "verify" /\ login[p].passwordOk /\ login'[p].pc = "idle")
            => /\ users'[login[p].userId].failedLoginAttempts = 0
               /\ users'[login[p].userId].accountLockedUntil = NoDate]_vars

====
